---- MODULE Spec2Model ----
(***************************************************************************)
(* A model of location-fetcher: the region-tiled fetch with retry and a    *)
(* per-day file cache (services/fetcher.py), and the filters and counters  *)
(* over the cached result sets (services/data_handler.py, main.py).        *)
(*                                                                         *)
(* Strings that take part in file names are sequences of underscore-free   *)
(* words; joining them with "_" is the concatenation of the word lists.    *)
(* A JSON text is a sequence of tokens: an opening brace, the members      *)
(* other than "elements", one token per element, a closing brace.          *)
(***************************************************************************)
EXTENDS Integers, Sequences, FiniteSets, TLC

VARIABLES
    cache,          \* data_cache directory: file name -> text
    today,          \* the calendar day datetime.now() reports
    calls,          \* fetch_data calls completed so far
    pc,             \* "idle" | "fetching" | "done": position of fetch_data
    node_type,      \* argument of the running fetch_data call
    area_name,      \* argument of the running fetch_data call
    cache_file,     \* local of fetch_data: the file name computed at its start
    idx,            \* local of fetch_data: 1-based number of the subarea
    attempt,        \* local of fetch_with_progress: 0-based attempt
    all_elements,   \* local of fetch_data
    result,         \* what the call returned or raised
    out,            \* the per-subarea lines fetch_data printed
    requests,       \* history: requests.post calls issued by this call
    cur,            \* history: the requests made for the latest subarea
    served,         \* history: per finished subarea, what the service gave
    callDay,        \* history: the day on which this call was made
    last,           \* history: per argument pair, the latest call that returned
    filtered,       \* filtered_data directory: file name -> text
    hres            \* what the latest LocationDataHandler operation gave

fvars == <<cache, today, calls, pc, node_type, area_name, cache_file, idx,
           attempt, all_elements, result, out, requests, cur, served,
           callDay, last>>

hvars == <<filtered, hres>>

vars == <<fvars, hvars>>

-----------------------------------------------------------------------------
(* Bounds of the model *)

MaxCalls == 2
MaxDay == 2
MaxLen == 3

-----------------------------------------------------------------------------
(* Configuration: OverpassFetcher.__init__ *)

NorthernEurope == <<"northern", "europe">>
CentralEurope == <<"central", "europe">>
SouthernEurope == <<"southern", "europe">>

areas ==
    (NorthernEurope :> [bounds |-> <<55, 4, 71, 32>>,
                        subareas |-> << <<55, 4, 63, 18>>, <<63, 4, 71, 18>>,
                                        <<55, 18, 63, 32>>, <<63, 18, 71, 32>> >>])
    @@ (CentralEurope :> [bounds |-> <<45, 6, 55, 24>>,
                          subareas |-> << <<45, 6, 50, 15>>, <<50, 6, 55, 15>>,
                                          <<45, 15, 50, 24>>, <<50, 15, 55, 24>> >>])
    @@ (SouthernEurope :> [bounds |-> <<35, -10, 45, 28>>,
                           subareas |-> << <<35, -10, 40, 9>>, <<40, -10, 45, 9>>,
                                           <<35, 9, 40, 28>>, <<40, 9, 45, 28>> >>])

\* one attempt more than the default
FourRetries == 3 + 1

DefaultRetries == 3
DefaultDelay == 5

\* get_tag_key: the lookup table, with the raw string as the default
get_tag_key(nt) ==
    IF nt \in {<<"place", "of", "worship">>, <<"police">>, <<"school">>,
               <<"hospital">>, <<"restaurant">>}
    THEN <<"amenity">>
    ELSE IF nt = <<"park">> THEN <<"leisure">> ELSE nt

\* get_tag_value: every entry of the table maps a type to itself
get_tag_value(nt) == nt

\* build_query: the tag pair and the bounding box the query text is made of
build_query(nt, bounds) ==
    [key |-> get_tag_key(nt), value |-> get_tag_value(nt), bbox |-> bounds]

-----------------------------------------------------------------------------
(* Elements and JSON texts *)

ElemPlain == [id |-> 1]
ElemNamed == [id |-> 2, tags |-> [name |-> "St Mary", religion |-> "christian"]]
ElemMuslim == [id |-> 3, tags |-> [religion |-> "muslim"]]
ElemNamedOnly == [id |-> 4, tags |-> [name |-> "Central"]]

\* dict.get(key, default)
Get(d, key, default) == IF key \in DOMAIN d THEN d[key] ELSE default

LBrace == [lbrace |-> TRUE]
RBrace == [rbrace |-> TRUE]

\* the members of a dict other than "elements"
Header(d) == [k \in DOMAIN d \ {"elements"} |-> d[k]]

\* json.dumps / json.dump of a dict that holds an "elements" list
Encode(d) ==
    <<LBrace, [hdr |-> Header(d)]>>
    \o [i \in 1..Len(d.elements) |-> [elem |-> d.elements[i]]]
    \o <<RBrace>>

json_dumps(d) == Encode(d)
json_dump(d) == Encode(d)

\* whether json.loads accepts the text
WellFormed(t) ==
    /\ Len(t) >= 3
    /\ "lbrace" \in DOMAIN t[1]
    /\ "hdr" \in DOMAIN t[2]
    /\ "rbrace" \in DOMAIN t[Len(t)]
    /\ \A i \in 3..(Len(t) - 1) : "elem" \in DOMAIN t[i]

\* json.loads / json.load of a well-formed text
Decode(t) ==
    LET h == t[2].hdr
        els == [i \in 1..(Len(t) - 3) |-> t[i + 2].elem]
    IN [k \in DOMAIN h \cup {"elements"} |->
            IF k = "elements" THEN els ELSE h[k]]

-----------------------------------------------------------------------------
(* Inputs *)

\* the argument pairs fetch_data is called with: a configured region, a
\* region that is not configured, and one whose file name is the first one's
Args ==
    { << <<"place", "of", "worship">>, NorthernEurope >>,
      << <<"place">>, <<"of", "worship", "northern", "europe">> >>,
      << <<"park">>, <<"atlantis">> >> }

\* the documents the service may answer the query for the j-th subarea with
ServiceBodies(j) ==
    CASE j = 1 -> { [elements |-> <<ElemNamed, ElemPlain>>] }
      [] j = 2 -> { [elements |-> <<ElemPlain>>] }
      [] j = 3 -> { [remark |-> "runtime error"] }
      [] OTHER -> { [elements |-> <<ElemMuslim, ElemNamed>>] }

\* the exceptions a request may end with
RequestErrors == {"ConnectionError", "Timeout", "HTTPError", "JSONDecodeError"}

-----------------------------------------------------------------------------
(* fetch_with_progress and fetch_data *)

\* the file name of fetch_data: node_type, area_name and the date joined by "_"
CacheFile(nt, an, day) == nt \o an \o <<day>>

\* a cache that is never found
CacheNever(dir, f) == FALSE

\* os.path.exists(cache_file)
CacheHit(dir, f) == f \in DOMAIN dir

\* except requests.exceptions.RequestException: json.JSONDecodeError is none
IsRequestException(exc) == exc \in {"ConnectionError", "Timeout", "HTTPError"}

\* one retry too few
RetriesShort(att, retries) == att < retries - 2

\* if attempt < retries - 1
RetriesLeft(att, retries) == att < retries - 1

\* a loop without the except clause
CatchesNothing(exc) == FALSE

\* except Exception in fetch_data's loop
CatchesException(exc) == TRUE

\* the new elements put in front
Prepend(all, els) == els \o all

\* all_elements.extend(elements)
Extend(all, els) == all \o els

NoResult == [kind |-> "none"]
NoCur == [tile |-> 0, query |-> <<>>, answers |-> <<>>, slept |-> 0]

Subareas == areas[area_name].subareas

\* a write that leaves no file
WriteNothing(dir, f, text) == dir

\* open(cache_file, 'w') ... json.dump
WriteFile(dir, f, text) ==
    [n \in DOMAIN dir \cup {f} |-> IF n = f THEN text ELSE dir[n]]

\* the history of the requests for subarea idx, with one more answer
CurWith(answer, slept) ==
    IF cur.tile = idx
    THEN [cur EXCEPT !.answers = Append(@, answer), !.slept = @ + slept]
    ELSE [tile |-> idx,
          query |-> build_query(node_type, Subareas[idx]),
          answers |-> <<answer>>,
          slept |-> slept]

\* the loop of fetch_data moves past subarea idx; after the last one the
\* result set is written to the cache file and returned
AfterTile(elements, line, gave) ==
    /\ out' = Append(out, line)
    /\ served' = Append(served, gave)
    /\ all_elements' = elements
    /\ attempt' = 0
    /\ IF idx < Len(Subareas)
       THEN /\ idx' = idx + 1
            /\ UNCHANGED <<pc, cache, result>>
       ELSE LET combined_data == [version |-> "0.6",
                                  generator |-> "Overpass API",
                                  elements |-> elements]
            IN /\ cache' = WriteFile(cache, cache_file, json_dump(combined_data))
               /\ result' = [kind |-> "value", text |-> json_dumps(combined_data)]
               /\ pc' = "done"
               /\ UNCHANGED idx

\* an exception leaves fetch_with_progress while subarea idx is processed
TileRaises(exc) ==
    IF CatchesException(exc)
    THEN AfterTile(all_elements, [msg |-> "error", n |-> 0],
                   [ok |-> FALSE, elements |-> <<>>])
    ELSE /\ result' = [kind |-> "raised", exc |-> exc]
         /\ pc' = "done"
         /\ UNCHANGED <<cache, idx, attempt, all_elements, out, served>>

\* fetch_data, lines 133-138: the file of today's key exists
FetchCached(nt, an) ==
    /\ pc = "idle"
    /\ calls < MaxCalls
    /\ CacheHit(cache, CacheFile(nt, an, today))
    /\ node_type' = nt
    /\ area_name' = an
    /\ cache_file' = CacheFile(nt, an, today)
    /\ callDay' = today
    /\ result' = [kind |-> "value", text |-> cache[CacheFile(nt, an, today)]]
    /\ pc' = "done"
    /\ UNCHANGED <<cache, today, calls, idx, attempt, all_elements, out,
                   requests, cur, served, last>>
    /\ UNCHANGED hvars

\* fetch_data, lines 133-141: no file, and get_subareas raises ValueError
FetchUnknown(nt, an) ==
    /\ pc = "idle"
    /\ calls < MaxCalls
    /\ ~CacheHit(cache, CacheFile(nt, an, today))
    /\ an \notin DOMAIN areas
    /\ node_type' = nt
    /\ area_name' = an
    /\ cache_file' = CacheFile(nt, an, today)
    /\ callDay' = today
    /\ result' = [kind |-> "ValueError", available |-> DOMAIN areas]
    /\ pc' = "done"
    /\ UNCHANGED <<cache, today, calls, idx, attempt, all_elements, out,
                   requests, cur, served, last>>
    /\ UNCHANGED hvars

\* fetch_data, lines 133-146: no file, the loop over the subareas begins
FetchStart(nt, an) ==
    /\ pc = "idle"
    /\ calls < MaxCalls
    /\ ~CacheHit(cache, CacheFile(nt, an, today))
    /\ an \in DOMAIN areas
    /\ node_type' = nt
    /\ area_name' = an
    /\ cache_file' = CacheFile(nt, an, today)
    /\ callDay' = today
    /\ pc' = "fetching"
    /\ idx' = 1
    /\ attempt' = 0
    /\ all_elements' = <<>>
    /\ UNCHANGED <<cache, today, calls, result, out, requests, cur, served, last>>
    /\ UNCHANGED hvars

\* one request that succeeds: the body parses to the dict data
RequestOk(data) ==
    /\ pc = "fetching"
    /\ requests' = requests + 1
    /\ cur' = CurWith("ok", 0)
    /\ LET elements == Get(data, "elements", <<>>)
       IN AfterTile(Extend(all_elements, elements),
                    [msg |-> "found", n |-> Len(elements)],
                    [ok |-> TRUE, elements |-> elements])
    /\ UNCHANGED <<today, calls, node_type, area_name, cache_file, callDay, last>>
    /\ UNCHANGED hvars

\* one request that ends with the exception exc
RequestFails(exc) ==
    /\ pc = "fetching"
    /\ requests' = requests + 1
    /\ IF IsRequestException(exc)
       THEN IF RetriesLeft(attempt, DefaultRetries)
            THEN \* time.sleep(delay), then the next round of the for loop
                 /\ cur' = CurWith("RequestException", DefaultDelay)
                 /\ IF attempt + 1 < DefaultRetries
                    THEN /\ attempt' = attempt + 1
                         /\ UNCHANGED <<cache, pc, idx, all_elements, result,
                                        out, served>>
                    ELSE \* the loop ends, None is returned, None.get raises
                         TileRaises("AttributeError")
            ELSE /\ cur' = CurWith("RequestException", 0)
                 /\ TileRaises(exc)
       ELSE /\ cur' = CurWith(exc, 0)
            /\ TileRaises(exc)
    /\ UNCHANGED <<today, calls, node_type, area_name, cache_file, callDay, last>>
    /\ UNCHANGED hvars

\* the caller takes the outcome of the call; the next call may begin
Finish ==
    /\ pc = "done"
    /\ pc' = "idle"
    /\ calls' = calls + 1
    /\ last' = IF result.kind = "value"
               THEN [k \in DOMAIN last \cup {<<node_type, area_name>>} |->
                        IF k = <<node_type, area_name>>
                        THEN [madeOn |-> callDay, endedOn |-> today,
                              text |-> result.text]
                        ELSE last[k]]
               ELSE last
    /\ node_type' = <<>>
    /\ area_name' = <<>>
    /\ cache_file' = <<>>
    /\ idx' = 0
    /\ attempt' = 0
    /\ all_elements' = <<>>
    /\ result' = NoResult
    /\ out' = <<>>
    /\ requests' = 0
    /\ cur' = NoCur
    /\ served' = <<>>
    /\ callDay' = 0
    /\ UNCHANGED <<cache, today>>
    /\ UNCHANGED hvars

\* midnight passes; a return and its receipt by the caller are one moment
Tick ==
    /\ today < MaxDay
    /\ pc # "done"
    /\ today' = today + 1
    /\ UNCHANGED <<cache, calls, pc, node_type, area_name, cache_file, idx,
                   attempt, all_elements, result, out, requests, cur, served,
                   callDay, last>>
    /\ UNCHANGED hvars

-----------------------------------------------------------------------------
(* LocationDataHandler; its raw_data_dir is the fetcher's data_cache *)

Elems == {ElemPlain, ElemNamed, ElemMuslim, ElemNamedOnly}

\* the methods class LocationDataHandler defines
HandlerMethods ==
    {"load_data", "save_filtered_data", "filter_named_locations",
     "filter_unnamed_locations", "list_raw_files", "list_filtered_files",
     "count_objects", "print_object_counts"}

\* the exception load_data ends with, "none" when it returns
LoadError(dir, f) ==
    IF f \notin DOMAIN dir THEN "FileNotFoundError"
    ELSE IF ~WellFormed(dir[f]) THEN "JSONDecodeError"
    ELSE "none"

\* the name test left out
HasTags(elem) == "tags" \in DOMAIN elem

\* 'tags' in elem and 'name' in elem['tags']
HasName(elem) == "tags" \in DOMAIN elem /\ "name" \in DOMAIN elem.tags

\* 'tags' not in elem or 'name' not in elem['tags']
LacksName(elem) == "tags" \notin DOMAIN elem \/ "name" \notin DOMAIN elem.tags

\* save_filtered_data: the name of the new file
FilteredName(original_filename, suffix) == original_filename \o suffix

\* filter_named_locations: the dict it saves
NamedData(data, filename) ==
    LET filtered_elements == SelectSeq(data.elements, HasName)
    IN [version |-> Get(data, "version", "0.6"),
        generator |-> "Filtered Data",
        original_file |-> filename,
        filter_type |-> "named_only",
        original_count |-> Len(data.elements),
        filtered_count |-> Len(filtered_elements),
        elements |-> filtered_elements]

\* filter_unnamed_locations: the dict it saves
UnnamedData(data, filename) ==
    LET filtered_elements == SelectSeq(data.elements, LacksName)
    IN [version |-> Get(data, "version", "0.6"),
        generator |-> "Filtered Data",
        original_file |-> filename,
        filter_type |-> "unnamed_only",
        original_count |-> Len(data.elements),
        filtered_count |-> Len(filtered_elements),
        elements |-> filtered_elements]

\* a count without the except clause
CountCatchesNothing(exc) == FALSE

\* except json.JSONDecodeError in count_objects
CountCatches(exc) == exc = "JSONDecodeError"

\* count_objects: the entry of one file
CountEntry(text) ==
    IF WellFormed(text) THEN Len(Get(Decode(text), "elements", <<>>)) ELSE 0

RECURSIVE TotalObjects(_, _)
\* count_objects: total_objects grows by num_objects for each file that loads
TotalObjects(dir, names) ==
    IF names = {} THEN 0
    ELSE LET f == CHOOSE n \in names : TRUE
         IN (IF WellFormed(dir[f])
             THEN Len(Get(Decode(dir[f]), "elements", <<>>))
             ELSE 0)
            + TotalObjects(dir, names \ {f})

\* count_objects: the counts of one directory
CountDir(dir) ==
    [total_objects |-> TotalObjects(dir, DOMAIN dir),
     files |-> [f \in DOMAIN dir |-> CountEntry(dir[f])]]

\* whether count_objects lets an exception escape on this directory
CountRaises(dir) ==
    \E f \in DOMAIN dir : ~WellFormed(dir[f]) /\ ~CountCatches("JSONDecodeError")

load_data(filename) ==
    /\ hres' = IF LoadError(cache, filename) = "none"
               THEN [op |-> "load_data", arg |-> filename, kind |-> "value",
                     data |-> Decode(cache[filename])]
               ELSE [op |-> "load_data", arg |-> filename, kind |-> "raised",
                     exc |-> LoadError(cache, filename)]
    /\ UNCHANGED <<fvars, filtered>>

filter_named_locations(filename) ==
    /\ IF LoadError(cache, filename) = "none"
       THEN LET filtered_data == NamedData(Decode(cache[filename]), filename)
                new_filename == FilteredName(filename, <<"named", "only">>)
            IN /\ filtered' = WriteFile(filtered, new_filename,
                                        json_dump(filtered_data))
               /\ hres' = [op |-> "filter_named_locations", arg |-> filename,
                           kind |-> "value", name |-> new_filename]
       ELSE /\ hres' = [op |-> "filter_named_locations", arg |-> filename,
                        kind |-> "raised", exc |-> LoadError(cache, filename)]
            /\ UNCHANGED filtered
    /\ UNCHANGED fvars

filter_unnamed_locations(filename) ==
    /\ IF LoadError(cache, filename) = "none"
       THEN LET filtered_data == UnnamedData(Decode(cache[filename]), filename)
                new_filename == FilteredName(filename, <<"unnamed", "only">>)
            IN /\ filtered' = WriteFile(filtered, new_filename,
                                        json_dump(filtered_data))
               /\ hres' = [op |-> "filter_unnamed_locations", arg |-> filename,
                           kind |-> "value", name |-> new_filename]
       ELSE /\ hres' = [op |-> "filter_unnamed_locations", arg |-> filename,
                        kind |-> "raised", exc |-> LoadError(cache, filename)]
            /\ UNCHANGED filtered
    /\ UNCHANGED fvars

count_objects ==
    /\ hres' = IF CountRaises(cache) \/ CountRaises(filtered)
               THEN [op |-> "count_objects", kind |-> "raised",
                     exc |-> "JSONDecodeError"]
               ELSE [op |-> "count_objects", kind |-> "value",
                     counts |-> [raw_data |-> CountDir(cache),
                                 filtered_data |-> CountDir(filtered)]]
    /\ UNCHANGED <<fvars, filtered>>

\* main.py: load_data, then handler.get_statistics and handler.filter_by_tags
analyze_example(filename) ==
    /\ hres' = IF LoadError(cache, filename) # "none"
               THEN [op |-> "analyze_example", arg |-> filename,
                     kind |-> "raised", exc |-> LoadError(cache, filename)]
               ELSE IF "get_statistics" \notin HandlerMethods
               THEN [op |-> "analyze_example", arg |-> filename,
                     kind |-> "raised", exc |-> "AttributeError",
                     attribute |-> "get_statistics"]
               ELSE IF "filter_by_tags" \notin HandlerMethods
               THEN [op |-> "analyze_example", arg |-> filename,
                     kind |-> "raised", exc |-> "AttributeError",
                     attribute |-> "filter_by_tags"]
               ELSE [op |-> "analyze_example", arg |-> filename,
                     kind |-> "value"]
    /\ UNCHANGED <<fvars, filtered>>

-----------------------------------------------------------------------------
(* The fetcher from an empty cache directory *)

Init ==
    /\ cache = <<>>
    /\ today = 1
    /\ calls = 0
    /\ pc = "idle"
    /\ node_type = <<>>
    /\ area_name = <<>>
    /\ cache_file = <<>>
    /\ idx = 0
    /\ attempt = 0
    /\ all_elements = <<>>
    /\ result = NoResult
    /\ out = <<>>
    /\ requests = 0
    /\ cur = NoCur
    /\ served = <<>>
    /\ callDay = 0
    /\ last = <<>>
    /\ filtered = <<>>
    /\ hres = NoResult

Step ==
    \/ \E data \in ServiceBodies(idx) : RequestOk(data)
    \/ \E exc \in RequestErrors : RequestFails(exc)

Next ==
    \/ \E a \in Args : FetchCached(a[1], a[2])
    \/ \E a \in Args : FetchUnknown(a[1], a[2])
    \/ \E a \in Args : FetchStart(a[1], a[2])
    \/ Step
    \/ Finish
    \/ Tick

Spec == Init /\ [][Next]_vars

FairSpec == Spec /\ WF_vars(Step)

-----------------------------------------------------------------------------
(* Properties of fetch_data *)

Known == area_name \in DOMAIN areas
Key == <<node_type, area_name>>
Running == pc \in {"fetching", "done"}
ResultElements == Decode(result.text).elements
AllTransport(answers) ==
    \A i \in 1..Len(answers) : answers[i] = "RequestException"

RECURSIVE ConcatOk(_)
\* the elements of the subareas that succeeded, in the order of the subareas
ConcatOk(sv) ==
    IF sv = <<>> THEN <<>>
    ELSE (IF Head(sv).ok THEN Head(sv).elements ELSE <<>>) \o ConcatOk(Tail(sv))

RECURSIVE LenBefore(_, _)
\* how many elements the subareas before the j-th one gave
LenBefore(sv, j) ==
    IF j <= 1 THEN 0
    ELSE LenBefore(sv, j - 1) + (IF sv[j - 1].ok THEN Len(sv[j - 1].elements) ELSE 0)

\* C1, as stated: once fetch_data has completed on a calendar day for a known
\* region, a second call with the same arguments on that day issues no request
\* and returns what the first call returned.
C1_CompletedThatDay ==
    (Running /\ Known /\ Key \in DOMAIN last /\ last[Key].endedOn = callDay)
        => /\ requests = 0
           /\ pc = "done" => (result.kind = "value" /\ result.text = last[Key].text)

\* C1, amended: once a fetch_data call made on a calendar day (the day the call
\* read when it began, which names its cache file) has returned for a known
\* region, a later call with the same arguments made on that day issues no
\* request and returns the text the first call returned, which is the cache
\* file's text.
C1_MadeThatDay ==
    (Running /\ Known /\ Key \in DOMAIN last /\ last[Key].madeOn = callDay)
        => /\ requests = 0
           /\ cur = NoCur
           /\ pc = "done"
           /\ result.kind = "value"
           /\ result.text = last[Key].text
           /\ cache_file \in DOMAIN cache
           /\ result.text = cache[cache_file]

\* a second call on the day of the first one returns a partial result: the
\* first and third subareas had succeeded, the others had been skipped
C1_Witness ==
    /\ pc = "done"
    /\ Known
    /\ Key \in DOMAIN last
    /\ last[Key].madeOn = callDay
    /\ requests = 0
    /\ result.kind = "value"
    /\ ResultElements = <<ElemNamed, ElemPlain>>

\* C2: a subarea whose three attempts all fail is skipped, the remaining
\* subareas are processed in order, and the call returns a result set holding
\* exactly the elements of the subareas that succeeded.
C2_FailedTileSkipped ==
    /\ (cur.tile > 0 /\ Len(cur.answers) = 3 /\ AllTransport(cur.answers))
          => /\ Len(served) = cur.tile
             /\ ~served[cur.tile].ok
             /\ out[cur.tile].msg = "error"
             /\ IF cur.tile < Len(Subareas)
                THEN pc = "fetching" /\ idx = cur.tile + 1 /\ attempt = 0
                ELSE pc = "done"
    /\ (pc = "done" /\ cur.tile > 0)
          => /\ result.kind = "value"
             /\ Len(served) = Len(Subareas)
             /\ ResultElements = ConcatOk(served)
             /\ \A j \in 1..Len(served) :
                    ~served[j].ok => (out[j].msg = "error" /\ served[j].elements = <<>>)

\* the last subarea failed three times, another one failed, one succeeded
C2_Witness ==
    /\ pc = "done"
    /\ cur.tile = 4
    /\ cur.answers = <<"RequestException", "RequestException", "RequestException">>
    /\ result.kind = "value"
    /\ served[1].ok
    /\ ~served[2].ok
    /\ ResultElements = <<ElemNamed, ElemPlain>>

\* C3: transport failures on the first k attempts (k <= 2) leave the subarea in
\* progress, each followed by the fixed delay; a success on attempt k+1 ends
\* the subarea with that attempt's elements appended, no further attempt and
\* no error line.
C3_RetryThenSuccess ==
    /\ (cur.tile > 0 /\ Len(cur.answers) <= 2 /\ AllTransport(cur.answers))
          => /\ pc = "fetching"
             /\ idx = cur.tile
             /\ attempt = Len(cur.answers)
             /\ cur.slept = 5 * Len(cur.answers)
             /\ Len(served) = cur.tile - 1
    /\ (cur.tile > 0 /\ cur.answers[Len(cur.answers)] = "ok")
          => LET k == Len(cur.answers) - 1
             IN /\ k \in 0..2
                /\ AllTransport(SubSeq(cur.answers, 1, k))
                /\ Len(served) = cur.tile
                /\ served[cur.tile].ok
                /\ out[cur.tile] = [msg |-> "found", n |-> Len(served[cur.tile].elements)]
                /\ all_elements = ConcatOk(served)
                /\ attempt = 0
                /\ pc = "fetching" => idx = cur.tile + 1
                /\ pc = "done" => (result.kind = "value"
                                   /\ ResultElements = ConcatOk(served))

\* the first subarea succeeded on its third attempt
C3_Witness ==
    /\ cur.tile = 1
    /\ cur.answers = <<"RequestException", "RequestException", "ok">>
    /\ all_elements = <<ElemNamed, ElemPlain>>
    /\ requests = 3

\* C4: a body that does not parse on attempt 1 or 2 is followed by another
\* attempt for the same subarea; the subarea is given up only after the third
\* attempt has failed.
C4_MalformedRetried ==
    (cur.tile > 0
     /\ cur.answers[Len(cur.answers)] = "JSONDecodeError"
     /\ Len(cur.answers) < 3)
        => /\ pc = "fetching"
           /\ idx = cur.tile
           /\ attempt = Len(cur.answers)
           /\ Len(served) = cur.tile - 1

\* C5: a call whose region is not configured ends with the unknown-region
\* error naming the configured regions, whatever the cache directory holds.
C5_UnknownRegionFails ==
    (pc = "done" /\ ~Known)
        => /\ result.kind = "ValueError"
           /\ result.available = {NorthernEurope, CentralEurope, SouthernEurope}

Budget ==
    /\ Len(cur.answers) <= 3
    /\ requests <= 3 * cur.tile
    /\ Known /\ Running => requests <= 3 * Len(Subareas)
    /\ ~Known => requests = 0

NoRevisit == (pc' # "idle") => cur'.tile >= cur.tile

\* C10: every subarea gets at most 3 requests, the request history never goes
\* back to an earlier subarea, a call issues at most 3 requests per subarea in
\* total, and a call that entered the loop comes to its end.
C10_BudgetAndTermination ==
    /\ []Budget
    /\ [][NoRevisit]_vars
    /\ (pc = "fetching") ~> (pc = "done")

\* every subarea used its three attempts: twelve requests, and the call ended
C10_Witness ==
    /\ pc = "done"
    /\ requests = 12
    /\ cur.tile = 4
    /\ result.kind = "value"

\* the step in which the call that missed the cache for a known region ends
LoopEnds == pc = "fetching" /\ pc' = "done"

\* the cache directory after the step: one file more, under the name computed
\* when the call began, holding the text the call returns
WroteResult ==
    /\ cache_file \notin DOMAIN cache
    /\ cache_file = CacheFile(node_type, area_name, callDay)
    /\ DOMAIN cache' = DOMAIN cache \cup {cache_file}
    /\ \A f \in DOMAIN cache : cache'[f] = cache[f]
    /\ result'.kind = "value"
    /\ cache'[cache_file] = result'.text
    /\ WellFormed(result'.text)
    /\ Decode(result'.text) = [version |-> "0.6",
                               generator |-> "Overpass API",
                               elements |-> ConcatOk(served')]

CacheWrites ==
    /\ LoopEnds => (idx = 4 /\ Len(served') = 4 /\ WroteResult)
    /\ ~LoopEnds => cache' = cache
    /\ (pc = "idle" /\ pc' = "done") =>
           (cache' = cache /\ result'.kind \in {"value", "ValueError"})

\* C11: the cache directory changes in one step of a call only, the one that
\* ends the loop after the last subarea was processed or skipped: that step
\* adds the file named when the call began, with the text the call returns
\* (the fixed header and the elements gathered); a call that finds its file or
\* whose region is not configured leaves the directory as it was.
C11_OneWriteAtTheEnd == [][CacheWrites]_vars

\* a call begun on day 1 ended on day 2 with two subareas skipped: its file
\* carries day 1 and holds what the call returns
C11_Witness ==
    /\ pc = "done"
    /\ cur.tile = 4
    /\ callDay = 1
    /\ today = 2
    /\ result.kind = "value"
    /\ cache_file = <<"place", "of", "worship", "northern", "europe", 1>>
    /\ DOMAIN cache = {cache_file}
    /\ cache[cache_file] = result.text
    /\ ResultElements = <<ElemNamed, ElemPlain>>

-----------------------------------------------------------------------------
(* The handler over the directories it may find *)

\* the sequences over S of length at most n
SeqsUpTo(S, n) == UNION {[1..k -> S] : k \in 0..n}

RawFile == CacheFile(<<"hospital">>, NorthernEurope, 1)
OtherFile == CacheFile(<<"park">>, CentralEurope, 1)
MissingFile == CacheFile(<<"school">>, NorthernEurope, 1)
ForeignFile == <<"notes">>

FetchedData(els) ==
    [version |-> "0.6", generator |-> "Overpass API", elements |-> els]

\* a file whose writing was cut short: the text lacks its end
Truncated(text) == SubSeq(text, 1, Len(text) - 1)

\* what fetch_data writes, and what is left of it when the write is cut short
RawTexts ==
    {json_dump(FetchedData(els)) : els \in SeqsUpTo(Elems, MaxLen)}
    \cup {Truncated(json_dump(FetchedData(<<ElemNamed, ElemPlain>>))), <<>>}

OtherTexts ==
    {json_dump(FetchedData(<<ElemNamedOnly, ElemPlain>>)),
     Truncated(json_dump(FetchedData(<<ElemNamedOnly>>)))}

HandlerInit ==
    /\ \E t \in RawTexts :
         \/ cache = (RawFile :> t)
         \/ \E u \in OtherTexts : cache = (RawFile :> t) @@ (OtherFile :> u)
    /\ \/ filtered = <<>>
       \/ filtered = (ForeignFile :> Truncated(json_dump(FetchedData(<<>>))))
    /\ hres = NoResult
    /\ today = 1
    /\ calls = 0
    /\ pc = "idle"
    /\ node_type = <<>>
    /\ area_name = <<>>
    /\ cache_file = <<>>
    /\ idx = 0
    /\ attempt = 0
    /\ all_elements = <<>>
    /\ result = NoResult
    /\ out = <<>>
    /\ requests = 0
    /\ cur = NoCur
    /\ served = <<>>
    /\ callDay = 0
    /\ last = <<>>

FileArgs == {RawFile, OtherFile, MissingFile}

HandlerNext ==
    \/ \E f \in FileArgs : load_data(f)
    \/ \E f \in FileArgs : filter_named_locations(f)
    \/ \E f \in FileArgs : filter_unnamed_locations(f)
    \/ count_objects
    \/ \E f \in FileArgs : analyze_example(f)

HandlerSpec == HandlerInit /\ [][HandlerNext]_vars

-----------------------------------------------------------------------------
(* Properties of LocationDataHandler *)

\* the element has a tag mapping that holds the key name
Tagged(e) == "name" \in (IF "tags" \in DOMAIN e THEN DOMAIN e.tags ELSE {})

RECURSIVE Restrict(_, _, _)
\* the subsequence of s at the positions from i on that are in keep
Restrict(s, keep, i) ==
    IF i > Len(s) THEN <<>>
    ELSE (IF i \in keep THEN <<s[i]>> ELSE <<>>) \o Restrict(s, keep, i + 1)

NamedFile(f) == f \o <<"named", "only">>
UnnamedFile(f) == f \o <<"unnamed", "only">>

\* C6: the named output is the subsequence of the elements with a name tag,
\* the unnamed output the subsequence of the others; each header records the
\* original length and the length of its own output, and the two add up.
C6_NamedUnnamedPartition ==
    \A f \in DOMAIN cache :
        WellFormed(cache[f]) =>
            LET R == Decode(cache[f]).elements
                named == {i \in 1..Len(R) : Tagged(R[i])}
                others == (1..Len(R)) \ named
            IN /\ NamedFile(f) \in DOMAIN filtered =>
                    LET N == Decode(filtered[NamedFile(f)])
                    IN /\ WellFormed(filtered[NamedFile(f)])
                       /\ N.elements = Restrict(R, named, 1)
                       /\ N.original_count = Len(R)
                       /\ N.filtered_count = Len(N.elements)
                       /\ N.filter_type = "named_only"
               /\ UnnamedFile(f) \in DOMAIN filtered =>
                    LET U == Decode(filtered[UnnamedFile(f)])
                    IN /\ WellFormed(filtered[UnnamedFile(f)])
                       /\ U.elements = Restrict(R, others, 1)
                       /\ U.original_count = Len(R)
                       /\ U.filtered_count = Len(U.elements)
                       /\ U.filter_type = "unnamed_only"
               /\ (NamedFile(f) \in DOMAIN filtered
                   /\ UnnamedFile(f) \in DOMAIN filtered) =>
                    Decode(filtered[NamedFile(f)]).filtered_count
                    + Decode(filtered[UnnamedFile(f)]).filtered_count = Len(R)

\* both filters ran on a file of three elements, one of them tagged but unnamed
C6_Witness ==
    /\ cache[RawFile] = json_dump(FetchedData(<<ElemMuslim, ElemNamed, ElemPlain>>))
    /\ NamedFile(RawFile) \in DOMAIN filtered
    /\ UnnamedFile(RawFile) \in DOMAIN filtered
    /\ Decode(filtered[NamedFile(RawFile)]).elements = <<ElemNamed>>
    /\ Decode(filtered[UnnamedFile(RawFile)]).elements = <<ElemMuslim, ElemPlain>>

\* the number of element tokens of a text
ElementTokens(t) == Cardinality({i \in 1..Len(t) : "elem" \in DOMAIN t[i]})

RECURSIVE SumValid(_, _)
\* the element tokens of the well-formed files among names
SumValid(dir, names) ==
    IF names = {} THEN 0
    ELSE LET f == CHOOSE n \in names : TRUE
         IN (IF WellFormed(dir[f]) THEN ElementTokens(dir[f]) ELSE 0)
            + SumValid(dir, names \ {f})

CountsRight(dir, c) ==
    /\ DOMAIN c.files = DOMAIN dir
    /\ \A f \in DOMAIN dir :
           c.files[f] = IF WellFormed(dir[f]) THEN ElementTokens(dir[f]) ELSE 0
    /\ c.total_objects = SumValid(dir, DOMAIN dir)

\* C7: count_objects returns whatever unparseable files the directories hold:
\* such a file counts 0, a valid file counts its elements, and the total is
\* the sum over the valid files; load_data of an unparseable file raises.
C7_CountToleratesMalformed ==
    /\ hres.kind # "none" /\ hres.op = "count_objects"
          => /\ hres.kind = "value"
             /\ CountsRight(cache, hres.counts.raw_data)
             /\ CountsRight(filtered, hres.counts.filtered_data)
    /\ (hres.kind # "none" /\ hres.op = "load_data"
        /\ hres.arg \in DOMAIN cache /\ ~WellFormed(cache[hres.arg]))
          => hres.kind = "raised" /\ hres.exc = "JSONDecodeError"

\* one valid file of three elements and one unparseable file were counted
C7_Witness ==
    /\ hres.kind = "value"
    /\ hres.op = "count_objects"
    /\ OtherFile \in DOMAIN cache
    /\ ~WellFormed(cache[OtherFile])
    /\ hres.counts.raw_data.files[OtherFile] = 0
    /\ hres.counts.raw_data.files[RawFile] = 3
    /\ hres.counts.raw_data.total_objects = 3

\* the element's tags hold religion: christian
Christian(e) ==
    /\ "tags" \in DOMAIN e
    /\ "religion" \in DOMAIN e.tags
    /\ e.tags.religion = "christian"

\* C8: the handler's filter_by_tags, as analyze_example calls it with
\* {"religion": "christian"} on a loaded result set, returns exactly the
\* elements whose tags hold that pair.
C8_FilterByTagsProvided ==
    (hres.kind # "none" /\ hres.op = "analyze_example"
     /\ LoadError(cache, hres.arg) = "none")
        => /\ hres.kind = "value"
           /\ hres.filtered = SelectSeq(Decode(cache[hres.arg]).elements, Christian)

====
